---- MODULE Spec2Model ----
(***************************************************************************)
(* State-machine model of lumaTT.py: ScheduleMaker.getTimeSlots,           *)
(* ScheduleMaker.makeSchedule (allotment, round assignment, filler, final  *)
(* cross-check) and ScheduleMaker.distributeMatches.                       *)
(*                                                                         *)
(* Conventions                                                             *)
(*   - Python None in minGames / maxGames is the number None (-1): Python 2*)
(*     orders None below every int, and so does -1 below every count.      *)
(*   - a slot is referred to by its index in allSlots (object identity);   *)
(*     index 0 is the dummy DayData of line 607.  Match.slot = 0 is None.  *)
(*   - a match is referred to by <<round key, index in that round's list>>.*)
(*   - a date is a day number; day 0 is a Monday, weekday = date % 7.      *)
(*   - every draw from self.rand is a nondeterministic choice.             *)
(*   - a raised exception ends the run: pc = "raised", err names it and    *)
(*     errLine is the source line that raised it.                          *)
(*   - what the sheets and the match source hold (seasonData, roster,      *)
(*     rounds) is fixed in the initial state; the leaguenight / lunch      *)
(*     flags of the roster rows are drawn where distributeMatches is       *)
(*     called with them.                                                   *)
(*   - _slots is self._slots as getTimeSlots stored or found it: the slots *)
(*     as they were created.  <<>> stands for "not built yet" (None); the  *)
(*     fields the run changes are those of allSlots.                       *)
(*   - the pairings of one round are distinct, so that list.remove, which  *)
(*     compares by Match._id, removes the chosen match itself.             *)
(***************************************************************************)
EXTENDS Integers, Sequences, FiniteSets, TLC

(* ------------------------------ bounds -------------------------------- *)
\* longest season, in calendar days (startdate..enddate)
MaxDays == 5
\* largest value of the class attributes GAMES_PER_LUNCH / GAMES_PER_LEAGUE_NIGHT
MaxGamesPerGroup == 2
\* most rounds in the RoundMap
MaxRounds == 2
\* most matches in the RoundMap
MaxGames == 4
\* number of players in the roster
NumPlayers == 3
\* largest seasonData['gamespermatchup']
MaxGamesPerMatchup == 1

None == -1

PlayerNames == <<"A", "B", "C", "D", "E", "F">>
Players == {PlayerNames[i] : i \in 1..NumPlayers}
\* the pairings a round can hold: player1 before player2 in roster order
Pairs == {<<PlayerNames[ij[1]], PlayerNames[ij[2]]>> :
             ij \in {x \in (1..NumPlayers) \X (1..NumPlayers) : x[1] < x[2]}}
\* the first day of the season: a Monday or a Saturday
StartDates == {0, 5}
\* seasonData['leaguenights']: Monday or (never scheduled) Sunday
LeagueNightChoices == {0, 6}

VARIABLES
    pc, err, errLine,
    GAMES_PER_LUNCH, GAMES_PER_LEAGUE_NIGHT, ERROR_ON_POOR_DISTRIBUTION,
    seasonData, roster, rounds, _slots,
    allSlots, roundMatches,
    availableByRound, maxRound, gamesLeft, currentRound, numPlusOnes, totalGames,
    remainingSlots, possiblePlusOnes, roundPlusOneAllotments, extraPlusOnes,
    currentDay, currentDayMatchesUsed, roundNum, matchesLeft,
    roundSlots, roundMatchesRemain,
    gameType, playerPool, maxedPlayers, playerPicks, minPicks, maxPicks, slotI, picked

classVars == <<GAMES_PER_LUNCH, GAMES_PER_LEAGUE_NIGHT, ERROR_ON_POOR_DISTRIBUTION>>
allotVars == <<availableByRound, maxRound, gamesLeft, currentRound, numPlusOnes, totalGames>>
assignVars == <<remainingSlots, possiblePlusOnes, roundPlusOneAllotments, extraPlusOnes,
                currentDay, currentDayMatchesUsed, roundNum, matchesLeft>>
distVars == <<gameType, playerPool, maxedPlayers, playerPicks, minPicks, maxPicks, slotI, picked>>
vars == <<pc, err, errLine, classVars, seasonData, roster, rounds, _slots, allSlots, roundMatches,
          allotVars, assignVars, roundSlots, roundMatchesRemain, distVars>>

(* ------------------------------ helpers ------------------------------- *)
Max(S) == CHOOSE x \in S : \A y \in S : y <= x
Min(S) == CHOOSE x \in S : \A y \in S : x <= y

RECURSIVE SumSeq(_)
SumSeq(s) == IF s = <<>> THEN 0 ELSE Head(s) + SumSeq(Tail(s))

RECURSIVE SetToSeq(_)
SetToSeq(S) == IF S = {} THEN <<>>
               ELSE LET x == CHOOSE x \in S : TRUE IN <<x>> \o SetToSeq(S \ {x})

Raise(name, line) == /\ pc' = "raised"
                     /\ err' = name
                     /\ errLine' = line

NoRaise == UNCHANGED <<err, errLine>>

(* ------------------------------ DayData ------------------------------- *)
DayData(date, group, minGames, maxGames) ==
    [date |-> date, group |-> group, matches |-> <<>>,
     minGames |-> minGames, maxGames |-> maxGames, allottedGames |-> 0]

HIT_MAX == "hitMax"
HIT_MIN == "hitMin"
UNDER_MIN == "underMin"

availability(slot) ==
    IF slot.maxGames # None /\ Len(slot.matches) >= slot.maxGames THEN HIT_MAX
    ELSE IF slot.minGames = None \/ Len(slot.matches) >= slot.minGames THEN HIT_MIN
    ELSE UNDER_MIN

\* DayData._id: the key slots are compared and hashed by
SlotId(slot) == <<slot.date, slot.group>>

(* ---------------------------- getTimeSlots ---------------------------- *)
RECURSIVE slotsFrom(_, _, _, _, _)
slotsFrom(currentDate, endDate, leagueNight, lunchGames, leagueGames) ==
    IF currentDate > endDate THEN <<>>
    ELSE LET weekday == currentDate % 7
             today == IF weekday <= 4
                      THEN <<DayData(currentDate, "None", None, None),
                             DayData(currentDate, "lunch", lunchGames, lunchGames)>>
                           \o (IF weekday = leagueNight
                               THEN <<DayData(currentDate, "leagueNight", leagueGames, leagueGames)>>
                               ELSE <<>>)
                      ELSE <<>>
         IN today \o slotsFrom(currentDate + 1, endDate, leagueNight, lunchGames, leagueGames)

\* a faulty filter: line 429 left out, every slot is kept
keepSlotAlways(x) == TRUE

\* line 429
keepSlot(x) == x.maxGames = None \/ x.maxGames > 0

getTimeSlots(sd, lunchGames, leagueGames) ==
    SelectSeq(slotsFrom(sd.startdate, sd.enddate, sd.leaguenights, lunchGames, leagueGames),
              keepSlot)

(* ------------------- makeSchedule: capacity allotment ------------------ *)
\* lines 490-492: reserve the minimum of every slot that is under its minimum
reserveMinimums(slots) ==
    [i \in DOMAIN slots |->
        IF availability(slots[i]) = UNDER_MIN
        THEN [slots[i] EXCEPT !.allottedGames = slots[i].minGames]
        ELSE slots[i]]

\* a faulty reservation count: line 491 written with = for +=, so that only the
\* last slot under its minimum is counted
reservedGamesLast(slots) ==
    LET under == {i \in DOMAIN slots : availability(slots[i]) = UNDER_MIN}
    IN IF under = {} THEN 0 ELSE slots[Max(under)].minGames

\* lines 488-491: the games reserved for the slots that are under their minimum
reservedGames(slots) ==
    SumSeq([i \in DOMAIN slots |->
              IF availability(slots[i]) = UNDER_MIN THEN slots[i].minGames ELSE 0])

\* lines 501-514: the key of remainingAllotment a slot is filed under
remainingKey(slot) ==
    IF availability(slot) = HIT_MAX THEN 0
    ELSE IF slot.maxGames = None THEN -1
    ELSE IF slot.minGames = slot.maxGames THEN 0
    ELSE slot.maxGames - (IF slot.minGames = None THEN 0 ELSE slot.minGames)

remainingAllotmentKeys(slots) == {0, -1} \cup {remainingKey(slots[i]) : i \in DOMAIN slots}

remainingAllotment(slots, key) == {i \in DOMAIN slots : remainingKey(slots[i]) = key}

\* lines 540-547: walked backwards from maxRound - 1; remainingAllotment[k] of a
\* key k that no slot was filed under is a KeyError
missingRounds(slots) ==
    {k \in 1..Max(remainingAllotmentKeys(slots)) : k \notin remainingAllotmentKeys(slots)}

buildAvailableByRound(slots) ==
    LET top == Max(remainingAllotmentKeys(slots)) + 1
    IN [k \in 1..top |->
           remainingAllotment(slots, -1)
           \cup {i \in DOMAIN slots : remainingKey(slots[i]) >= k /\ remainingKey(slots[i]) < top}]

\* a faulty leveling round: line 562 (slot.allottedGames += 1) left out, so that a
\* full round hands out its games without recording them on the slots
levelSlotsUnrecorded(slots, eligible, games) ==
    [i \in DOMAIN slots |->
        IF i \in eligible /\ games < Cardinality(eligible)
        THEN [slots[i] EXCEPT !.maxGames = slots[i].allottedGames + 1]
        ELSE slots[i]]

\* a faulty leveling round: the partial round (lines 565-567) walks all the slots
\* rather than the eligible ones, and lifts every maximum to allottedGames + 1
levelSlotsAll(slots, eligible, games) ==
    [i \in DOMAIN slots |->
        IF games >= Cardinality(eligible)
        THEN (IF i \in eligible THEN [slots[i] EXCEPT !.allottedGames = @ + 1] ELSE slots[i])
        ELSE [slots[i] EXCEPT !.maxGames = slots[i].allottedGames + 1]]

\* lines 560-567: one allotment round over the slots that can take one more game
levelSlots(slots, eligible, games) ==
    [i \in DOMAIN slots |->
        IF i \notin eligible THEN slots[i]
        ELSE IF games >= Cardinality(eligible)
             THEN [slots[i] EXCEPT !.allottedGames = @ + 1]
             ELSE [slots[i] EXCEPT !.maxGames = slots[i].allottedGames + 1]]

\* lines 577-584, one slot
finalizeMin(slot) ==
    IF slot.minGames < slot.allottedGames
    THEN [slot EXCEPT !.minGames = slot.allottedGames] ELSE slot

finalizeSlot(slot) ==
    LET s == finalizeMin(slot)
    IN IF s.maxGames = None THEN [s EXCEPT !.maxGames = s.allottedGames] ELSE s

maxGamesAssertion(slot) ==
    slot.maxGames = None \/ slot.maxGames \in {slot.allottedGames, slot.allottedGames + 1}

\* the slots whose assertion of line 584 fails
failedAssertions(slots) == {i \in DOMAIN slots : ~maxGamesAssertion(slots[i])}

\* the loop of lines 577-584, stopped at the first failing assertion (if any)
finalizeSlots(slots) ==
    LET bad == failedAssertions(slots)
        stop == IF bad = {} THEN Len(slots) + 1 ELSE Min(bad)
    IN [i \in DOMAIN slots |->
           IF i < stop THEN finalizeSlot(slots[i])
           ELSE IF i = stop THEN finalizeMin(slots[i])
           ELSE slots[i]]

(* ------------------------------- Init --------------------------------- *)
\* the SeasonData sheet: one row, read by getSeasonData
SeasonDatas ==
    {[startdate |-> startdate, enddate |-> startdate + days - 1,
      leaguenights |-> leaguenights, gamespermatchup |-> gamespermatchup] :
        startdate \in StartDates, days \in 1..MaxDays,
        leaguenights \in LeagueNightChoices, gamespermatchup \in 1..MaxGamesPerMatchup}

\* the RoundMaps of the match source: rounds 1..n, each a non-empty list of
\* distinct pairings, MaxGames matches at most
RoundMaps ==
    {rm \in UNION {[1..n -> (SUBSET Pairs) \ {{}}] : n \in 0..MaxRounds} :
        SumSeq([r \in DOMAIN rm |-> Cardinality(rm[r])]) <= MaxGames}

\* ScheduleMaker.__init__ with the class attributes as set, and what the sheets
\* and the match source hold: nothing is fetched or computed yet
Start(lunchGames, leagueGames, strict, sd, players, rm, slots) ==
    /\ pc = "getTimeSlots"
    /\ err = "" /\ errLine = 0
    /\ GAMES_PER_LUNCH = lunchGames
    /\ GAMES_PER_LEAGUE_NIGHT = leagueGames
    /\ ERROR_ON_POOR_DISTRIBUTION = strict
    /\ seasonData = sd /\ roster = players /\ rounds = rm /\ _slots = slots
    /\ allSlots = <<>> /\ roundMatches = <<>>
    /\ availableByRound = <<>> /\ maxRound = 0 /\ gamesLeft = 0 /\ currentRound = 0
    /\ numPlusOnes = 0 /\ totalGames = 0
    /\ remainingSlots = <<>> /\ possiblePlusOnes = {} /\ roundPlusOneAllotments = <<>>
    /\ extraPlusOnes = 0 /\ currentDay = 0 /\ currentDayMatchesUsed = 0
    /\ roundNum = 0 /\ matchesLeft = 0
    /\ roundSlots = <<>> /\ roundMatchesRemain = <<>>
    /\ gameType = "" /\ playerPool = {} /\ maxedPlayers = {} /\ playerPicks = <<>>
    /\ minPicks = 0 /\ maxPicks = 0 /\ slotI = 0 /\ picked = 0

Init ==
    \E lunchGames \in 0..MaxGamesPerGroup, leagueGames \in 0..MaxGamesPerGroup,
       strict \in BOOLEAN, sd \in SeasonDatas, rm \in RoundMaps :
       Start(lunchGames, leagueGames, strict, sd, Players, rm, <<>>)

(* ----------------------- makeSchedule, lines 475-584 ------------------- *)
\* line 481: allSlots = self.getTimeSlots(), which builds the slots unless the
\* instance already holds them (line 405)
GetTimeSlots ==
    /\ pc = "getTimeSlots"
    /\ _slots' = IF _slots = <<>>
                 THEN getTimeSlots(seasonData, GAMES_PER_LUNCH, GAMES_PER_LEAGUE_NIGHT)
                 ELSE _slots
    /\ allSlots' = _slots'
    /\ pc' = "reserve"
    /\ NoRaise
    /\ UNCHANGED <<classVars, seasonData, roster, rounds, roundMatches, allotVars, assignVars,
                   roundSlots, roundMatchesRemain, distVars>>

\* lines 482-547: reserve the minimums and build availableByRound
ReserveMinimums ==
    /\ pc = "reserve"
    /\ allSlots' = reserveMinimums(allSlots)
    /\ IF missingRounds(allSlots) # {}
       THEN /\ Raise("KeyError", 545)
            /\ UNCHANGED <<availableByRound, maxRound>>
       ELSE /\ availableByRound' = buildAvailableByRound(allSlots)
            /\ maxRound' = Max(remainingAllotmentKeys(allSlots)) + 1
            /\ pc' = "getRoundMatches"
            /\ NoRaise
    /\ UNCHANGED <<classVars, seasonData, roster, rounds, _slots, roundMatches, gamesLeft, currentRound,
                   numPlusOnes, totalGames, assignVars, roundSlots, roundMatchesRemain, distVars>>

\* Match(None, player1, player2) of getChallongeMatches
Match(pair) == [slot |-> 0, player1 |-> pair[1], player2 |-> pair[2], round |-> 0]

toMatchList(pairs) == LET s == SetToSeq(pairs) IN [i \in DOMAIN s |-> Match(s[i])]

\* lines 550-556: roundMatches = self.getRoundMatches(); too few games is an error
GetRoundMatches ==
    /\ pc = "getRoundMatches"
    /\ LET n == SumSeq([r \in DOMAIN rounds |-> Cardinality(rounds[r])])
       IN /\ roundMatches' = [r \in DOMAIN rounds |-> toMatchList(rounds[r])]
          /\ totalGames' = n
          /\ gamesLeft' = n - reservedGames(allSlots)
          /\ IF n - reservedGames(allSlots) < 0
             THEN Raise("ValueError", 555)
             ELSE pc' = "level" /\ NoRaise
    /\ currentRound' = 1
    /\ numPlusOnes' = 0
    /\ UNCHANGED <<classVars, seasonData, roster, rounds, _slots, allSlots, availableByRound, maxRound,
                   assignVars, roundSlots, roundMatchesRemain, distVars>>

\* lines 557-569: one pass of the leveling loop.  currentRound is only ever read
\* as min(currentRound, maxRound), so it is kept saturated at maxRound.
LevelRound ==
    /\ pc = "level"
    /\ gamesLeft > 0
    /\ LET eligible == availableByRound[Min({currentRound, maxRound})]
           numRemainingSlots == Cardinality(eligible)
       IN /\ remainingSlots' = SetToSeq(eligible)
          /\ allSlots' = levelSlots(allSlots, eligible, gamesLeft)
          /\ numPlusOnes' = IF gamesLeft >= numRemainingSlots THEN numPlusOnes ELSE gamesLeft
          /\ gamesLeft' = gamesLeft - numRemainingSlots
    /\ currentRound' = Min({currentRound + 1, maxRound})
    /\ UNCHANGED <<pc, err, errLine, classVars, seasonData, roster, rounds, _slots, roundMatches,
                   availableByRound, maxRound, totalGames, possiblePlusOnes,
                   roundPlusOneAllotments, extraPlusOnes, currentDay, currentDayMatchesUsed,
                   roundNum, matchesLeft, roundSlots, roundMatchesRemain, distVars>>

\* a faulty walk order: line 601 without reversed(), so that pop() takes the
\* last slot first
slotsToPopUnreversed(slots) == [i \in DOMAIN slots |-> Len(slots) + 1 - i]

\* line 601: the slots in the order remainingSlots.pop() hands them out
slotsToPop(slots) == [i \in DOMAIN slots |-> i]

\* lines 571-608: finalize min/max, share the +1s between the rounds, set up the
\* walk over the slots (remainingSlots is kept in date order and popped at its head)
FinalizeAllotment ==
    /\ pc = "level"
    /\ gamesLeft <= 0
    /\ possiblePlusOnes' = IF numPlusOnes = 0 THEN {}
                           ELSE {SlotId(allSlots[remainingSlots[i]]) : i \in DOMAIN remainingSlots}
    /\ allSlots' = finalizeSlots(allSlots)
    /\ IF failedAssertions(allSlots) # {}
       THEN /\ Raise("AssertionError", 584)
            /\ UNCHANGED <<remainingSlots, roundPlusOneAllotments, extraPlusOnes, roundSlots>>
       ELSE IF Len(roundMatches) = 0
       THEN /\ Raise("ZeroDivisionError", 592)
            /\ UNCHANGED <<remainingSlots, roundPlusOneAllotments, extraPlusOnes, roundSlots>>
       ELSE /\ roundPlusOneAllotments' =
                  [r \in DOMAIN roundMatches |-> numPlusOnes \div Len(roundMatches)]
            /\ extraPlusOnes' = numPlusOnes % Len(roundMatches)
            /\ remainingSlots' = slotsToPop(allSlots)
            /\ roundSlots' = [r \in DOMAIN roundMatches |-> <<>>]
            /\ pc' = "assign"
            /\ NoRaise
    /\ currentDay' = 0
    /\ currentDayMatchesUsed' = 0
    /\ roundNum' = 0
    /\ matchesLeft' = 0
    /\ UNCHANGED <<classVars, seasonData, roster, rounds, _slots, roundMatches, allotVars,
                   roundMatchesRemain, distVars>>

(* ------------------- makeSchedule: the Round Assigner ------------------ *)
\* minGames / maxGames of currentDay; index 0 is DayData(None, minGames=0, maxGames=0)
dayMin(day) == IF day = 0 THEN 0 ELSE allSlots[day].minGames
dayMax(day) == IF day = 0 THEN 0 ELSE allSlots[day].maxGames

\* lines 610-613: the for statement takes the next round, or the loop is over
StartRound ==
    /\ pc = "assign"
    /\ matchesLeft <= 0
    /\ IF roundNum < Len(roundMatches)
       THEN /\ roundNum' = roundNum + 1
            /\ matchesLeft' = Len(roundMatches[roundNum + 1])
            /\ pc' = "assign"
       ELSE /\ pc' = "checkAllotment"
            /\ UNCHANGED <<roundNum, matchesLeft>>
    /\ UNCHANGED <<err, errLine, classVars, seasonData, roster, rounds, _slots, allSlots, roundMatches,
                   allotVars, remainingSlots, possiblePlusOnes, roundPlusOneAllotments,
                   extraPlusOnes, currentDay, currentDayMatchesUsed,
                   roundSlots, roundMatchesRemain, distVars>>

\* lines 650-659, with remaining the slots still in remainingSlots
stillPossiblePlusOnes(remaining) ==
    possiblePlusOnes \cap {SlotId(allSlots[remaining[i]]) : i \in DOMAIN remaining}

remainingMandatoryPlusOnes ==
    SumSeq([k \in 1..(Len(roundMatches) - roundNum) |-> roundPlusOneAllotments[roundNum + k]])

remainingOptionalPlusOnes(remaining) ==
    Cardinality(stillPossiblePlusOnes(remaining)) + 1 - remainingMandatoryPlusOnes

\* line 683: the values self.rand.random() <= float(extraPlusOnes) / optional can
\* take, random() being any number of [0, 1)
randomPlusOne(optional) ==
    IF optional < 0 THEN {FALSE}
    ELSE IF extraPlusOnes >= optional THEN {TRUE}
    ELSE BOOLEAN

\* lines 641-689: the decisions open for a possible +1 slot, left being the
\* matches of the round still unplaced once the slot's floor is met.  "div0"
\* is the float division by zero of line 683.
plusOneDecisions(remaining, left) ==
    IF roundPlusOneAllotments[roundNum] # 0 THEN {"mandatory"}
    ELSE LET optional == remainingOptionalPlusOnes(remaining)
         IN IF extraPlusOnes = 0 THEN {"skip"}
            ELSE IF extraPlusOnes = optional THEN {"use"}
            ELSE IF left = 0 THEN {"skip"}
            ELSE IF left = 1 THEN {"use"}
            ELSE IF optional = 0 THEN {"div0"}
            ELSE {IF b THEN "use" ELSE "skip" : b \in randomPlusOne(optional)}

\* lines 614-708: one pass of the while loop of the current round
AssignStep ==
    /\ pc = "assign"
    /\ matchesLeft > 0
    /\ LET pop == currentDayMatchesUsed >= dayMax(currentDay)
       IN IF pop /\ remainingSlots = <<>>
          THEN /\ Raise("IndexError", 619)
               /\ UNCHANGED <<allSlots, assignVars, roundSlots>>
          ELSE
            LET day == IF pop THEN Head(remainingSlots) ELSE currentDay
                remaining == IF pop THEN Tail(remainingSlots) ELSE remainingSlots
                used == IF pop THEN 0 ELSE currentDayMatchesUsed
                minLeft == dayMin(day) - used
                left == matchesLeft - minLeft
            IN IF matchesLeft >= minLeft
               THEN IF dayMax(day) > dayMin(day)
                    THEN \E d \in plusOneDecisions(remaining, left) :
                         IF d = "div0"
                         THEN /\ Raise("ZeroDivisionError", 683)
                              /\ currentDay' = day
                              /\ remainingSlots' = remaining
                              /\ currentDayMatchesUsed' = used + minLeft
                              /\ matchesLeft' = left
                              /\ possiblePlusOnes' = stillPossiblePlusOnes(remaining)
                              /\ UNCHANGED <<allSlots, roundPlusOneAllotments, extraPlusOnes,
                                             roundNum, roundSlots>>
                         ELSE
                           LET usePlusOne == d \in {"mandatory", "use"}
                           IN /\ roundPlusOneAllotments' =
                                    IF d = "mandatory"
                                    THEN [roundPlusOneAllotments EXCEPT ![roundNum] = @ - 1]
                                    ELSE roundPlusOneAllotments
                              /\ possiblePlusOnes' = IF d = "mandatory" THEN possiblePlusOnes
                                                     ELSE stillPossiblePlusOnes(remaining)
                              /\ extraPlusOnes' = IF d = "use" THEN extraPlusOnes - 1
                                                  ELSE extraPlusOnes
                              /\ allSlots' = IF usePlusOne
                                             THEN [allSlots EXCEPT ![day].minGames = @ + 1]
                                             ELSE [allSlots EXCEPT ![day].maxGames = @ - 1]
                              /\ currentDayMatchesUsed' =
                                    used + minLeft + (IF usePlusOne THEN 1 ELSE 0)
                              /\ matchesLeft' = left - (IF usePlusOne THEN 1 ELSE 0)
                              /\ roundSlots' = [roundSlots EXCEPT ![roundNum] =
                                    Append(@, [slot |-> day,
                                               numMatches |-> minLeft + (IF usePlusOne THEN 1 ELSE 0)])]
                              /\ currentDay' = day
                              /\ remainingSlots' = remaining
                              /\ UNCHANGED <<pc, err, errLine, roundNum>>
                    ELSE /\ currentDayMatchesUsed' = used + minLeft
                         /\ matchesLeft' = left
                         /\ roundSlots' = [roundSlots EXCEPT ![roundNum] =
                               Append(@, [slot |-> day, numMatches |-> minLeft])]
                         /\ currentDay' = day
                         /\ remainingSlots' = remaining
                         /\ UNCHANGED <<pc, err, errLine, allSlots, possiblePlusOnes,
                                        roundPlusOneAllotments, extraPlusOnes, roundNum>>
               ELSE /\ currentDayMatchesUsed' = used + matchesLeft
                    /\ matchesLeft' = 0
                    /\ roundSlots' = [roundSlots EXCEPT ![roundNum] =
                          Append(@, [slot |-> day, numMatches |-> matchesLeft])]
                    /\ currentDay' = day
                    /\ remainingSlots' = remaining
                    /\ UNCHANGED <<pc, err, errLine, allSlots, possiblePlusOnes,
                                   roundPlusOneAllotments, extraPlusOnes, roundNum>>
    /\ UNCHANGED <<classVars, seasonData, roster, rounds, _slots, roundMatches, allotVars,
                   roundMatchesRemain, distVars>>

\* lines 712-716
slottedGames == SumSeq([i \in DOMAIN allSlots |-> allSlots[i].minGames])

\* the first of the assertions of lines 711, 714 and 716 that fails, 0 if none does
failedAllotmentCheck ==
    IF remainingSlots # <<>> THEN 711
    ELSE IF \E i \in DOMAIN allSlots : allSlots[i].minGames # allSlots[i].maxGames THEN 714
    ELSE IF slottedGames # totalGames THEN 716
    ELSE 0


\* lines 710-733: the double check of the allotment, the working copy of the
\* RoundMap and the roster; distributeMatches(..., 'leagueNight', ...) is next
CheckAllotment ==
    /\ pc = "checkAllotment"
    /\ IF failedAllotmentCheck # 0
       THEN /\ Raise("AssertionError", failedAllotmentCheck)
            /\ UNCHANGED <<roundMatchesRemain, gameType>>
       ELSE /\ roundMatchesRemain' =
                  [r \in DOMAIN roundMatches |-> {<<r, i>> : i \in DOMAIN roundMatches[r]}]
            /\ gameType' = "leagueNight"
            /\ pc' = "distribute"
            /\ NoRaise
    /\ UNCHANGED <<classVars, seasonData, roster, rounds, _slots, allSlots, roundMatches, allotVars, assignVars,
                   roundSlots, playerPool, maxedPlayers, playerPicks, minPicks, maxPicks,
                   slotI, picked>>

(* -------------------------- distributeMatches -------------------------- *)
matchOf(id) == roundMatches[id[1]][id[2]]

\* ScheduleMaker._updateMatch, lines 778-781
updateMatchIn(matches, id, slot, rnd) ==
    [matches EXCEPT ![id[1]][id[2]] = [@ EXCEPT !.slot = slot, !.round = rnd]]

\* a faulty _updateMatch: line 781 (slot.matches.append(match)) left out
appendMatchDropped(slots, id, slot) == [slots EXCEPT ![slot].matches = @]

\* line 781
appendMatch(slots, id, slot) == [slots EXCEPT ![slot].matches = Append(@, id)]

\* lines 821-827
totalPicks ==
    SumSeq([r \in DOMAIN roundSlots |->
              SumSeq([i \in DOMAIN roundSlots[r] |->
                        IF allSlots[roundSlots[r][i].slot].group # gameType THEN 0
                        ELSE roundSlots[r][i].numMatches * 2])])

\* lines 828-832
minPicksOf(total, pool) == total \div Cardinality(pool)

maxPicksOf(total, pool) ==
    IF total % Cardinality(pool) # 0 THEN minPicksOf(total, pool) + 1
    ELSE minPicksOf(total, pool)

\* a faulty start: the pick counts are opened for the whole roster, not for the
\* players of the pool
initialPicksRoster(pool) == [player \in roster |-> 0]

\* line 835: playerPicks = dict( (player, 0) for player in playerPool )
initialPicks(pool) == [player \in pool |-> 0]

\* lines 734-740 and 815-835: the players of the roster whose flag for the group
\* is set (the flag is read from the sheet's row here, and drawn here), and the
\* start of distributeMatches(roundSlots, roundMatchesRemain, gameType, playerPool)
DistributeStart ==
    /\ pc = "distribute"
    /\ \E pool \in SUBSET roster :
          /\ playerPool' = pool
          /\ maxedPlayers' = {}
          /\ IF pool = {}
             THEN /\ Raise("ZeroDivisionError", 828)
                  /\ UNCHANGED <<minPicks, maxPicks, playerPicks, roundNum, slotI, picked>>
             ELSE /\ minPicks' = minPicksOf(totalPicks, pool)
                  /\ maxPicks' = maxPicksOf(totalPicks, pool)
                  /\ playerPicks' = initialPicks(pool)
                  /\ roundNum' = 1
                  /\ slotI' = 1
                  /\ picked' = 0
                  /\ pc' = "pick"
                  /\ NoRaise
    /\ UNCHANGED <<classVars, seasonData, roster, rounds, _slots, allSlots, roundMatches, allotVars,
                   remainingSlots, possiblePlusOnes, roundPlusOneAllotments, extraPlusOnes,
                   currentDay, currentDayMatchesUsed, matchesLeft,
                   roundSlots, roundMatchesRemain, gameType>>

\* the entries of the plan from (rnd, i) on, in the order the loops visit them
entriesFrom(rnd, i) ==
    {e \in {<<r, j>> : r \in DOMAIN roundSlots, j \in 1..MaxDays * 3} :
        /\ e[2] \in DOMAIN roundSlots[e[1]]
        /\ (e[1] > rnd \/ (e[1] = rnd /\ e[2] >= i))}

firstEntry(S) == CHOOSE e \in S : \A f \in S : e[1] < f[1] \/ (e[1] = f[1] /\ e[2] <= f[2])

\* a faulty walk over the plan: lines 839-840 (if slot.group != gameType:
\* continue) left out, so that the entries of every group are filled
groupEntriesOfAnyGroup ==
    {e \in entriesFrom(roundNum, slotI) : roundSlots[e[1]][e[2]].numMatches > 0}

\* lines 836-842: the entries of the group that still ask for a match
groupEntries ==
    {e \in entriesFrom(roundNum, slotI) :
        /\ allSlots[roundSlots[e[1]][e[2]].slot].group = gameType
        /\ roundSlots[e[1]][e[2]].numMatches > 0}

\* lines 861-871
countsFuture(id, player) ==
    LET m == matchOf(id)
    IN IF m.player1 \notin playerPool \/ m.player2 \notin playerPool
          \/ m.player1 \in maxedPlayers \/ m.player2 \in maxedPlayers
       THEN 0
       ELSE (IF m.player1 = player THEN 1 ELSE 0) + (IF m.player2 = player THEN 1 ELSE 0)

gamesRemaining(rnd, player) ==
    SumSeq([k \in 1..(Len(roundSlots) - rnd) |->
              SumSeq([j \in DOMAIN roundMatches[rnd + k] |->
                        IF <<rnd + k, j>> \in roundMatchesRemain[rnd + k]
                        THEN countsFuture(<<rnd + k, j>>, player) ELSE 0])])

\* lines 875-879
requiredPlayers(rnd) ==
    {player \in playerPool :
        /\ minPicks - playerPicks[player] >= gamesRemaining(rnd, player)
        /\ player \notin maxedPlayers}

\* lines 881-889
requiredCount(rnd, id) ==
    (IF matchOf(id).player1 \in requiredPlayers(rnd) THEN 1 ELSE 0)
    + (IF matchOf(id).player2 \in requiredPlayers(rnd) THEN 1 ELSE 0)

\* a faulty choice: line 889 takes the first group of the sorted counts, [0] for
\* [-1], which is the group with the fewest required players
leastRequired(rnd) ==
    LET left == roundMatchesRemain[rnd]
        bottom == Min({requiredCount(rnd, id) : id \in left})
    IN {id \in left : requiredCount(rnd, id) = bottom}

mostRequired(rnd) ==
    LET left == roundMatchesRemain[rnd]
        top == Max({requiredCount(rnd, id) : id \in left})
    IN {id \in left : requiredCount(rnd, id) = top}

\* lines 894-909; the empty set stands for the DistributionError of line 905
picksOf(id) == playerPicks[matchOf(id).player1] + playerPicks[matchOf(id).player2]

filterByPlayersInPool(potentialMatches) ==
    LET inPool == {id \in potentialMatches :
                      /\ matchOf(id).player1 \in DOMAIN playerPicks
                      /\ matchOf(id).player2 \in DOMAIN playerPicks}
    IN IF inPool = {} THEN {}
       ELSE {id \in inPool : picksOf(id) = Min({picksOf(x) : x \in inPool})}

\* lines 911-916
afterPoolFilter(rnd) ==
    LET first == filterByPlayersInPool(mostRequired(rnd))
    IN IF first # {} THEN first
       ELSE IF ERROR_ON_POOR_DISTRIBUTION THEN {}
       ELSE filterByPlayersInPool(roundMatchesRemain[rnd])

\* lines 921-926
futureOf(rnd, id) ==
    gamesRemaining(rnd, matchOf(id).player1) + gamesRemaining(rnd, matchOf(id).player2)

filterByFuture(rnd, potentialMatches) ==
    {id \in potentialMatches :
        futureOf(rnd, id) = Min({futureOf(rnd, x) : x \in potentialMatches})}

\* lines 934-939, for one player
maxedAfter(maxed, picks, player) ==
    IF picks[player] + 1 = maxPicks THEN maxed \cup {player} ELSE maxed

picksAfter(picks, player) ==
    IF picks[player] + 1 = maxPicks THEN picks ELSE [picks EXCEPT ![player] = @ + 1]

\* a faulty removal: the chosen match stays in the round's list (lines 929 / 750
\* left out), so that it can be chosen again
removeMatchKept(remain, rnd, id) == [remain EXCEPT ![rnd] = @]

\* lines 929 and 750: matchesLeft.remove(chosenMatch) / matchesLeft.pop(chosenIndex)
removeMatch(remain, rnd, id) == [remain EXCEPT ![rnd] = @ \ {id}]

\* lines 842-941: one pick for the next entry of the group; the entry's count
\* is set to 0 with its last pick
DistributePick ==
    /\ pc = "pick"
    /\ groupEntries # {}
    /\ LET e == firstEntry(groupEntries)
           rnd == e[1]
           entry == roundSlots[e[1]][e[2]]
           done == IF e = <<roundNum, slotI>> THEN picked ELSE 0
       IN IF roundMatchesRemain[rnd] = {}
          THEN /\ Raise("IndexError", 889)
               /\ UNCHANGED <<allSlots, roundMatches, roundSlots, roundMatchesRemain,
                              maxedPlayers, playerPicks, roundNum, slotI, picked>>
          ELSE IF afterPoolFilter(rnd) = {}
          THEN /\ Raise("DistributionError", 905)
               /\ UNCHANGED <<allSlots, roundMatches, roundSlots, roundMatchesRemain,
                              maxedPlayers, playerPicks, roundNum, slotI, picked>>
          ELSE \E chosenMatch \in filterByFuture(rnd, afterPoolFilter(rnd)) :
               LET m == matchOf(chosenMatch)
                   maxed1 == maxedAfter(maxedPlayers, playerPicks, m.player1)
                   picks1 == picksAfter(playerPicks, m.player1)
               IN /\ roundMatchesRemain' = removeMatch(roundMatchesRemain, rnd, chosenMatch)
                  /\ roundMatches' = updateMatchIn(roundMatches, chosenMatch, entry.slot, rnd)
                  /\ allSlots' = appendMatch(allSlots, chosenMatch, entry.slot)
                  /\ maxedPlayers' = maxedAfter(maxed1, picks1, m.player2)
                  /\ playerPicks' = picksAfter(picks1, m.player2)
                  /\ roundNum' = rnd
                  /\ IF done + 1 = entry.numMatches
                     THEN /\ roundSlots' = [roundSlots EXCEPT ![e[1]][e[2]].numMatches = 0]
                          /\ slotI' = e[2] + 1
                          /\ picked' = 0
                     ELSE /\ slotI' = e[2]
                          /\ picked' = done + 1
                          /\ UNCHANGED roundSlots
                  /\ UNCHANGED <<pc, err, errLine>>
    /\ UNCHANGED <<classVars, seasonData, roster, rounds, _slots, allotVars,
                   remainingSlots, possiblePlusOnes, roundPlusOneAllotments, extraPlusOnes,
                   currentDay, currentDayMatchesUsed, matchesLeft,
                   gameType, playerPool, minPicks, maxPicks>>

\* lines 945-952: playerPicks regenerated from the plan, one pass per entry
countsPlayer(id, player) ==
    (IF matchOf(id).player1 = player THEN 1 ELSE 0)
    + (IF matchOf(id).player2 = player THEN 1 ELSE 0)

slotPicks(slot, player) ==
    SumSeq([k \in DOMAIN allSlots[slot].matches |-> countsPlayer(allSlots[slot].matches[k], player)])

regeneratedPicks(player) ==
    SumSeq([r \in DOMAIN roundSlots |->
              SumSeq([i \in DOMAIN roundSlots[r] |->
                        IF allSlots[roundSlots[r][i].slot].group # gameType THEN 0
                        ELSE slotPicks(roundSlots[r][i].slot, player)])])

\* line 953
unevenDistribution ==
    Max({regeneratedPicks(x) : x \in playerPool})
    - Min({regeneratedPicks(x) : x \in playerPool}) > 1

\* lines 943-961, then the return to makeSchedule, where the locals of the call
\* are gone: the call for 'lunch' (lines 738-740) or the filler comes next
DistributeCheck ==
    /\ pc = "pick"
    /\ groupEntries = {}
    /\ IF unevenDistribution /\ ERROR_ON_POOR_DISTRIBUTION
       THEN /\ Raise("DistributionError", 958)
            /\ UNCHANGED <<distVars, roundNum>>
       ELSE /\ NoRaise
            /\ playerPool' = {} /\ maxedPlayers' = {} /\ playerPicks' = <<>>
            /\ minPicks' = 0 /\ maxPicks' = 0
            /\ IF gameType = "leagueNight"
               THEN /\ gameType' = "lunch"
                    /\ pc' = "distribute"
                    /\ roundNum' = 0 /\ slotI' = 0 /\ picked' = 0
               ELSE /\ gameType' = ""
                    /\ pc' = "fill"
                    /\ roundNum' = 1 /\ slotI' = 1 /\ picked' = 0
    /\ UNCHANGED <<classVars, seasonData, roster, rounds, _slots, allSlots, roundMatches, allotVars,
                   remainingSlots, possiblePlusOnes, roundPlusOneAllotments, extraPlusOnes,
                   currentDay, currentDayMatchesUsed, matchesLeft,
                   roundSlots, roundMatchesRemain>>

(* ---------------- makeSchedule: filler and cross-check ----------------- *)
\* lines 743-746: the entries that still ask for a match
fillEntries ==
    {e \in entriesFrom(roundNum, slotI) : roundSlots[e[1]][e[2]].numMatches > 0}

\* lines 747-751: one random match of the round for the next entry of the plan
FillPick ==
    /\ pc = "fill"
    /\ fillEntries # {}
    /\ LET e == firstEntry(fillEntries)
           rnd == e[1]
           entry == roundSlots[e[1]][e[2]]
           done == IF e = <<roundNum, slotI>> THEN picked ELSE 0
       IN IF roundMatchesRemain[rnd] = {}
          THEN /\ Raise("ValueError", 749)
               /\ UNCHANGED <<allSlots, roundMatches, roundMatchesRemain, roundNum, slotI, picked>>
          ELSE \E chosenMatch \in roundMatchesRemain[rnd] :
               /\ roundMatchesRemain' = removeMatch(roundMatchesRemain, rnd, chosenMatch)
               /\ roundMatches' = updateMatchIn(roundMatches, chosenMatch, entry.slot, rnd)
               /\ allSlots' = appendMatch(allSlots, chosenMatch, entry.slot)
               /\ roundNum' = rnd
               /\ IF done + 1 = entry.numMatches
                  THEN slotI' = e[2] + 1 /\ picked' = 0
                  ELSE slotI' = e[2] /\ picked' = done + 1
               /\ UNCHANGED <<pc, err, errLine>>
    /\ UNCHANGED <<classVars, seasonData, roster, rounds, _slots, allotVars,
                   remainingSlots, possiblePlusOnes, roundPlusOneAllotments, extraPlusOnes,
                   currentDay, currentDayMatchesUsed, matchesLeft, roundSlots,
                   gameType, playerPool, maxedPlayers, playerPicks, minPicks, maxPicks>>

\* lines 755-759
gamesPlayed(player) ==
    SumSeq([i \in DOMAIN allSlots |-> slotPicks(i, player)])

\* line 761
correctGames == (Cardinality(roster) - 1) * seasonData.gamespermatchup

\* a faulty cross-check: line 761 written with > for !=, so that a player with
\* too few games goes unnoticed
wrongPlayersOver == {player \in roster : gamesPlayed(player) > correctGames}

\* lines 760-761: the players the cross-check objects to
wrongPlayers == {player \in roster : gamesPlayed(player) # correctGames}

\* lines 753-762: every player of the roster must have played the same number of games
CrossCheck ==
    /\ pc = "fill"
    /\ fillEntries = {}
    /\ IF wrongPlayers # {}
       THEN Raise("DistributionError", 762)
       ELSE pc' = "done" /\ NoRaise
    /\ UNCHANGED <<classVars, seasonData, roster, rounds, _slots, allSlots, roundMatches, allotVars,
                   assignVars, roundSlots, roundMatchesRemain, gameType, playerPool,
                   maxedPlayers, playerPicks, minPicks, maxPicks, slotI, picked>>

(* ------------------------------ the run -------------------------------- *)
Next ==
    \/ GetTimeSlots
    \/ ReserveMinimums
    \/ GetRoundMatches
    \/ LevelRound
    \/ FinalizeAllotment
    \/ StartRound
    \/ AssignStep
    \/ CheckAllotment
    \/ DistributeStart
    \/ DistributePick
    \/ DistributeCheck
    \/ FillPick
    \/ CrossCheck

Spec == Init /\ [][Next]_vars

(* ------------- a season of lunch slots that hold two games ------------- *)
\* longest season of SpecSplit, in weekdays from a Monday
SplitDays == 3
\* GAMES_PER_LUNCH of SpecSplit: a lunch slot can be shared by two rounds
SplitLunchGames == 2

SplitPlayers == {"A", "B", "C", "D"}

\* three rounds of a four-player season, six matches
SplitRounds ==
    << {<<"C", "D">>, <<"B", "C">>},
       {<<"A", "B">>},
       {<<"A", "D">>, <<"B", "C">>, <<"C", "D">>} >>

\* three rounds in which B and C meet again and again, and an instance that
\* holds two lunch slots of one game ahead of an unconstrained slot: with the
\* lunch pool {A, B, C} the second lunch pick finds A required and A's only
\* open match against D
RematchRounds ==
    << {<<"B", "C">>},
       {<<"A", "D">>, <<"B", "C">>},
       {<<"B", "C">>} >>

RematchSlots ==
    << DayData(0, "lunch", 1, 1), DayData(1, "lunch", 1, 1), DayData(2, "None", None, None) >>

\* the first n rounds of SplitRounds, on 1..SplitDays weekdays without a league
\* night; or the rounds of RematchRounds on RematchSlots
InitSplit ==
    \/ \E days \in 1..SplitDays, strict \in BOOLEAN, n \in 1..Len(SplitRounds) :
          Start(SplitLunchGames, 0, strict,
                [startdate |-> 0, enddate |-> days - 1, leaguenights |-> 6, gamespermatchup |-> 1],
                SplitPlayers, SubSeq(SplitRounds, 1, n), <<>>)
    \/ \E strict \in BOOLEAN :
          Start(0, 0, strict,
                [startdate |-> 0, enddate |-> 2, leaguenights |-> 6, gamespermatchup |-> 1],
                SplitPlayers, RematchRounds, RematchSlots)

SpecSplit == InitSplit /\ [][Next]_vars

(* ---- a third specification: an instance that already holds its slots --- *)
\* getTimeSlots returns self._slots as found (line 405) when the list is there,
\* so the allotment of lines 488-584 can meet any minimums and maximums.  A
\* slot with a minimum is a lunch slot, the others are unconstrained; slot i is
\* on weekday i.
MaxAllotSlots == 3
MaxAllotMin == 2
MaxAllotCap == 3
MaxAllotRounds == 3
MaxAllotRoundSize == 2

AllotShapes ==
    {mm \in ({None, MaxAllotMin}) \X ({None} \cup 1..MaxAllotCap) :
        mm[1] = None \/ mm[2] = None \/ mm[1] <= mm[2]}

AllotSlots ==
    {[i \in DOMAIN shapes |->
         DayData(i - 1, IF shapes[i][1] = None THEN "None" ELSE "lunch",
                 shapes[i][1], shapes[i][2])] :
        shapes \in UNION {[1..n -> AllotShapes] : n \in 1..MaxAllotSlots}}

\* rounds told apart by their sizes only: the pairings are dealt to the rounds
\* in turn, starting over when every pairing has been dealt
AllotRounds ==
    LET pairSeq == SetToSeq(Pairs)
        dealt(sizes, r) == SumSeq(SubSeq(sizes, 1, r - 1))
    IN {[r \in DOMAIN sizes |->
           {pairSeq[((dealt(sizes, r) + i - 1) % Len(pairSeq)) + 1] : i \in 1..sizes[r]}] :
          sizes \in UNION {[1..n -> 1..Min({MaxAllotRoundSize, Cardinality(Pairs)})] :
                            n \in 1..MaxAllotRounds}}

InitAllot ==
    \E strict \in BOOLEAN, rm \in AllotRounds, slots \in AllotSlots :
       Start(0, 0, strict,
             [startdate |-> 0, enddate |-> 0, leaguenights |-> 6, gamespermatchup |-> 1],
             Players, rm, slots)

SpecAllot == InitAllot /\ [][Next]_vars

(* ============================== properties ============================= *)
\* the allotment loop (lines 557-569) has ended and the run goes on
AllotmentComplete == pc \in {"assign", "checkAllotment", "distribute", "pick", "fill", "done"}

\* the Round Assigner loop (lines 610-708) has processed all rounds
AssignmentComplete == pc \in {"checkAllotment", "distribute", "pick", "fill", "done"}

\* the filler (lines 743-751) has placed its last match
FillerFinished ==
    \/ pc = "done"
    \/ pc = "fill" /\ fillEntries = {}
    \/ pc = "raised" /\ errLine = 762

AllMatches == UNION {{<<r, i>> : i \in DOMAIN roundMatches[r]} : r \in DOMAIN roundMatches}

allottedSum == SumSeq([i \in DOMAIN allSlots |-> allSlots[i].allottedGames])

\* the allotment check of lines 710-716 has passed
AllotmentChecked == pc \in {"distribute", "pick", "fill", "done"}

\* C1: whenever the Round Assigner loop has processed all rounds, the three
\* assertions of lines 711-716 hold: no slot is left unconsumed, every slot has
\* minGames = maxGames, and the final minGames add up to totalGames.
C1_AssertionsHold == pc = "checkAllotment" => failedAllotmentCheck = 0

\* C2 as stated: once allotment and round assignment are complete, the
\* allottedGames of the slots add up to totalGames.
C2_AllottedSumIsTotal == AssignmentComplete => allottedSum = totalGames

\* C2 as the code has it: from the end of the allotment loop on, the
\* allottedGames of the slots and the numPlusOnes games held back for the +1
\* slots add up to totalGames.
C2_AllottedPlusOnesIsTotal == AllotmentComplete => allottedSum + numPlusOnes = totalGames

\* C2 witness: a schedule that passes the cross-check with a game held back for a +1 slot
C2_Witness == pc = "done" /\ numPlusOnes > 0 /\ allottedSum < totalGames

\* C3: when the distributor and the filler have finished, every slot has
\* minGames = maxGames = len(slot.matches).
C3_SlotsFilledExactly ==
    FillerFinished =>
        \A i \in DOMAIN allSlots :
            /\ allSlots[i].minGames = allSlots[i].maxGames
            /\ allSlots[i].maxGames = Len(allSlots[i].matches)

\* C3 witness: a finished schedule with matches in slots of two different groups
C3_Witness ==
    /\ pc = "done"
    /\ \E i, j \in DOMAIN allSlots :
          /\ allSlots[i].group # allSlots[j].group
          /\ Len(allSlots[i].matches) >= 1
          /\ Len(allSlots[j].matches) >= 1

occurrences(id, matches) == Cardinality({k \in DOMAIN matches : matches[k] = id})

assignedOnce(id) ==
    /\ matchOf(id).slot # 0
    /\ matchOf(id).round = id[1]
    /\ \A i \in DOMAIN allSlots :
          occurrences(id, allSlots[i].matches) = (IF i = matchOf(id).slot THEN 1 ELSE 0)

\* C4: at completion every match of the RoundMap has exactly one slot, is in
\* that slot's matches list exactly once and in no other, and carries the round
\* number of its RoundMap entry; and a match that has a slot is never changed
\* again, by the second distributeMatches call or by the filler.
C4_AssignedExactlyOnce ==
    /\ [](FillerFinished => \A id \in AllMatches : assignedOnce(id))
    /\ [][\A id \in AllMatches :
            matchOf(id).slot # 0 => roundMatches'[id[1]][id[2]] = matchOf(id)]_vars

\* C4 witness: a finished schedule of two rounds, placed by the distributor and by the filler
C4_Witness ==
    /\ pc = "done"
    /\ Len(roundMatches) = 2
    /\ \E id, other \in AllMatches :
          /\ allSlots[matchOf(id).slot].group = "None"
          /\ allSlots[matchOf(other).slot].group # "None"

\* the matches of the group's slots that a player is in, each slot counted once
groupGames(player) ==
    SumSeq([i \in DOMAIN allSlots |->
              IF allSlots[i].group = gameType THEN slotPicks(i, player) ELSE 0])

groupSpread ==
    Max({groupGames(x) : x \in playerPool}) - Min({groupGames(x) : x \in playerPool})

\* C5: in strict mode, whenever distributeMatches returns normally, the numbers
\* of the group's matches of any two eligible players differ by at most one.
C5_StrictReturnIsEven ==
    [][(pc = "pick" /\ pc' \in {"distribute", "fill"} /\ ERROR_ON_POOR_DISTRIBUTION)
          => groupSpread <= 1]_vars

\* C6: in lenient mode distributeMatches never raises DistributionError, neither
\* for a pick without a match of two eligible players (line 905) nor for an
\* uneven final spread (line 958).
C6_LenientNeverRaises ==
    ~(/\ pc = "raised" /\ err = "DistributionError" /\ errLine \in {905, 958}
      /\ ~ERROR_ON_POOR_DISTRIBUTION)

\* the minimums of the slots of the calendar that have one
sumOfMinimums ==
    LET slots == getTimeSlots(seasonData, GAMES_PER_LUNCH, GAMES_PER_LEAGUE_NIGHT)
    IN SumSeq([i \in DOMAIN slots |->
                 IF slots[i].minGames = None THEN 0 ELSE slots[i].minGames])

gamesInRoundMap == SumSeq([r \in DOMAIN rounds |-> Cardinality(rounds[r])])

\* C7: when the RoundMap holds fewer games than the slot minimums add up to,
\* makeSchedule fails with the ValueError of line 555 and has assigned nothing:
\* no match has a slot and every slot's matches list is empty.
C7_TooFewGamesFails ==
    (gamesInRoundMap < sumOfMinimums /\ pc \notin {"getTimeSlots", "reserve", "getRoundMatches"})
    => /\ pc = "raised" /\ err = "ValueError" /\ errLine = 555
       /\ \A i \in DOMAIN allSlots : allSlots[i].matches = <<>>
       /\ \A id \in AllMatches : matchOf(id).slot = 0

\* C7 witness: a RoundMap with a match, and still too few for the minimums
C7_Witness ==
    /\ pc = "raised" /\ errLine = 555
    /\ gamesInRoundMap >= 1
    /\ gamesInRoundMap < sumOfMinimums

\* the matches with a slot that a player is in
assignedGames(player) ==
    Cardinality({id \in AllMatches :
                    /\ matchOf(id).slot # 0
                    /\ player \in {matchOf(id).player1, matchOf(id).player2}})

expectedGames == (Cardinality(roster) - 1) * seasonData.gamespermatchup

\* C8: if makeSchedule passes its final cross-check, every roster player is in
\* exactly (playerCount - 1) * gamesPerMatchup assigned matches; and if some
\* roster player's count differs when the filler has finished, the next step
\* raises DistributionError.
C8_CrossCheckExact ==
    /\ [](pc = "done" => \A player \in roster : assignedGames(player) = expectedGames)
    /\ [][(/\ pc = "fill" /\ fillEntries = {}
            /\ \E player \in roster : assignedGames(player) # expectedGames)
           => (pc' = "raised" /\ err' = "DistributionError")]_vars

\* C8 witness: the cross-check passed on a season of more than one round
C8_Witness == pc = "done" /\ Len(roundMatches) >= 2 /\ Len(allSlots) >= 2

\* five weekdays of unconstrained slots only, and the one match (A, B)
C10_Scenario ==
    /\ seasonData.startdate = 0 /\ seasonData.enddate = 4
    /\ GAMES_PER_LUNCH = 0
    /\ GAMES_PER_LEAGUE_NIGHT = 0 \/ seasonData.leaguenights = 6
    /\ rounds = << {<<"A", "B">>} >>

\* C10: on five weekdays of unconstrained slots only and the RoundMap
\* {1: [(A, B)]}, allotment and round assignment complete without error, and the
\* match is placed in the first weekday's slot, every other slot holding none.
C10_SingleMatchOnFirstWeekday ==
    C10_Scenario =>
        /\ ~(pc = "raised" /\ errLine <= 716)
        /\ FillerFinished =>
              /\ allSlots[1].matches = << <<1, 1>> >>
              /\ \A i \in DOMAIN allSlots : i > 1 => allSlots[i].matches = <<>>

(* -------------------------------- C11 --------------------------------- *)
\* C11: once the round assignment has fixed the games of every slot (minGames
\* equal to maxGames), the number fixed for a slot is at least the minimum the
\* slot was created with, when it had one, and at most the maximum it was
\* created with, when it had one.
C11_FinalWithinCreatedBounds ==
    AllotmentChecked =>
        \A i \in DOMAIN allSlots :
            /\ allSlots[i].minGames = allSlots[i].maxGames
            /\ _slots[i].minGames # None => allSlots[i].minGames >= _slots[i].minGames
            /\ _slots[i].maxGames # None => allSlots[i].minGames <= _slots[i].maxGames

\* a run past the allotment check in which a slot created with a minimum below its maximum was
\* fixed above its minimum, next to a slot fixed below its maximum
C11_Witness ==
    /\ AllotmentChecked
    /\ \E i \in DOMAIN allSlots :
           /\ _slots[i].minGames # None /\ _slots[i].maxGames # None
           /\ allSlots[i].minGames > _slots[i].minGames
    /\ \E i \in DOMAIN allSlots :
           _slots[i].maxGames # None /\ allSlots[i].minGames < _slots[i].maxGames

(* -------------------------------- C13 --------------------------------- *)
\* C13: for every input whose games cover the sum of the minimums, the
\* finalisation loop of lines 577-584 ends with maxGames of every slot equal to
\* allottedGames or allottedGames + 1, and the assertion of line 584 never
\* fails, also for a slot whose own maximum lies two or more above the level
\* the leveling loop stopped at.
C13_MaxIsAllottedOrPlusOne ==
    /\ ~(pc = "raised" /\ errLine = 584)
    /\ (pc = "assign" /\ roundNum = 0) =>
           \A i \in DOMAIN allSlots :
              allSlots[i].maxGames \in {allSlots[i].allottedGames, allSlots[i].allottedGames + 1}

(* -------------------------------- C14 --------------------------------- *)
\* the slots of the last, partial allotment round (lines 564-567): the slots
\* that could still take a game when the leveling stopped
plusOneSlots ==
    {i \in DOMAIN allSlots :
        _slots[i].maxGames = None \/ allSlots[i].allottedGames < _slots[i].maxGames}

\* the slots the Round Assigner gave their +1 (lines 689-697)
tookPlusOne == {i \in plusOneSlots : allSlots[i].minGames = allSlots[i].allottedGames + 1}

\* the loop of lines 610-708 is over, by its end or by an exception
AssignmentOver == pc = "checkAllotment" \/ (pc = "raised" /\ errLine \in {619, 683})

\* C14: when the leveling ended in a partial round with N matches left for
\* D > N eligible slots, the round assignment ends with exactly N of these D
\* slots at allottedGames + 1 and the other D - N at allottedGames: the +1s
\* consumed are numPlusOnes, whatever the random draws.
C14_ExactlyNPlusOnes ==
    (AssignmentOver /\ numPlusOnes > 0) =>
        /\ Cardinality(tookPlusOne) = numPlusOnes
        /\ \A i \in plusOneSlots \ tookPlusOne :
              allSlots[i].minGames = allSlots[i].allottedGames

(* -------------------------------- C15 --------------------------------- *)
\* the round in which slot i was decided (lines 641-697): a slot takes or skips
\* its +1 in the pass that fills it, which is its last entry in roundSlots
roundOfPlusOne(i) ==
    Max({r \in DOMAIN roundSlots : \E k \in DOMAIN roundSlots[r] : roundSlots[r][k].slot = i})

\* the +1s consumed while round r was assigned
plusOnesUsedIn(r) == Cardinality({i \in tookPlusOne : roundOfPlusOne(i) = r})

\* line 592
plusOnesPerRound == numPlusOnes \div Len(roundMatches)

\* C15: the +1 surpluses are divided evenly across the rounds: every round
\* consumes numPlusOnes // roundCount of them or one more, and every round uses
\* its full mandatory quota.
C15_PlusOnesEvenAcrossRounds ==
    AllotmentChecked =>
        \A r \in DOMAIN roundMatches :
            /\ plusOnesUsedIn(r) \in {plusOnesPerRound, plusOnesPerRound + 1}
            /\ roundPlusOneAllotments[r] = 0

(* -------------------------------- C16 --------------------------------- *)
\* the slots that do not end at the maximum they were created with
belowCreatedMax ==
    {i \in DOMAIN allSlots :
        _slots[i].maxGames = None \/ allSlots[i].minGames # _slots[i].maxGames}

\* C16: after the allotment and the round assignment, the slots that do not end
\* at their own original maximum all hold n or n + 1 games for one common n,
\* also when the slots start from different minimums.
C16_LevelWithinOne ==
    AllotmentChecked =>
        \A i, j \in belowCreatedMax : allSlots[i].minGames - allSlots[j].minGames <= 1

(* -------------------------------- C17 --------------------------------- *)
\* the games a slot can take above its minimum (lines 512-513)
remainingCapacity(slot) ==
    slot.maxGames - (IF slot.minGames = None THEN 0 ELSE slot.minGames)

\* C17: for every set of slots and every leveling round k >= 1, the slots
\* eligible in round k are the slots without a maximum and the slots whose
\* remaining capacity (maxGames - minGames) is at least k, also when some value
\* between 1 and the largest remaining capacity is the capacity of no slot.
C17_EligibleByCapacity ==
    /\ ~(pc = "raised" /\ errLine = 545)
    /\ pc = "getRoundMatches" =>
          \A k \in 1..maxRound :
             availableByRound[k] =
                {i \in DOMAIN allSlots :
                    \/ allSlots[i].maxGames = None
                    \/ remainingCapacity(allSlots[i]) >= k}

(* -------------------------------- C18 --------------------------------- *)
\* the slots round r puts matches in
slotsUsedBy(r) ==
    {roundSlots[r][k].slot : k \in {j \in DOMAIN roundSlots[r] : roundSlots[r][j].numMatches > 0}}

\* C18: the rounds occupy the slots in calendar order: the entries of every
\* round in roundSlots are a contiguous run of the slot sequence, in order, and
\* for rounds r < r2 no slot that takes matches of r2 comes before a slot that
\* takes matches of r, so that two rounds share the boundary slot at most.
C18_RoundsInCalendarOrder ==
    /\ \A r \in DOMAIN roundSlots : \A k \in 1..(Len(roundSlots[r]) - 1) :
          /\ roundSlots[r][k + 1].slot = roundSlots[r][k].slot + 1
          /\ allSlots[roundSlots[r][k + 1].slot].date >= allSlots[roundSlots[r][k].slot].date
    /\ \A r, r2 \in DOMAIN roundSlots :
          r < r2 => \A i \in slotsUsedBy(r), i2 \in slotsUsedBy(r2) : i <= i2

\* the round assignment is over, the second round starts in the slot the first
\* round ended in, and the first round used an earlier slot as well
C18_Witness ==
    /\ pc = "checkAllotment"
    /\ Len(roundSlots) >= 2
    /\ \E i \in slotsUsedBy(1) \cap slotsUsedBy(2) :
          /\ \E j \in slotsUsedBy(1) : j < i
          /\ \E j \in slotsUsedBy(2) : j > i

(* -------------------------------- C19 --------------------------------- *)
\* the matches distributeMatches has put in the slots of its group so far
groupMatches ==
    UNION {{allSlots[i].matches[k] : k \in DOMAIN allSlots[i].matches} :
              i \in {j \in DOMAIN allSlots : allSlots[j].group = gameType}}

\* C19: every match distributeMatches places in a slot of its group has both
\* players in the eligible pool, in strict and in lenient mode alike.
C19_PlacedPlayersInPool ==
    pc = "pick" =>
        \A id \in groupMatches :
            matchOf(id).player1 \in playerPool /\ matchOf(id).player2 \in playerPool

\* a lenient call has placed a match and stands before a pick in which no match
\* with the most required players is between players of the pool, while
\* another open match of the round is (the second filter of line 916 picks it)
C19_Witness ==
    /\ pc = "pick"
    /\ ~ERROR_ON_POOR_DISTRIBUTION
    /\ groupMatches # {}
    /\ groupEntries # {}
    /\ LET rnd == firstEntry(groupEntries)[1]
       IN /\ roundMatchesRemain[rnd] # {}
          /\ filterByPlayersInPool(mostRequired(rnd)) = {}
          /\ afterPoolFilter(rnd) # {}

(* -------------------------------- C20 --------------------------------- *)
\* C20: during distributeMatches, after every pick, the pick count recorded for
\* each eligible player is the number of matches of the group assigned to the
\* player so far, and a player is in the maxed set exactly when that count has
\* reached maxPicks.
C20_PickCountsRecorded ==
    (pc = "pick" /\ groupMatches # {}) =>
        \A player \in playerPool :
            /\ playerPicks[player] = groupGames(player)
            /\ player \in maxedPlayers <=> groupGames(player) >= maxPicks

(* -------------------------------- C21 --------------------------------- *)
\* the matches still open in round rnd with the highest number of required
\* players, and those of them between two players of the pool
topRequired(rnd) ==
    {id \in roundMatchesRemain[rnd] :
        \A other \in roundMatchesRemain[rnd] : requiredCount(rnd, other) <= requiredCount(rnd, id)}

topRequiredInPool(rnd) ==
    {id \in topRequired(rnd) :
        matchOf(id).player1 \in playerPool /\ matchOf(id).player2 \in playerPool}

\* distributeMatches stands before a pick, in strict mode
StrictPickAhead ==
    /\ pc = "pick"
    /\ ERROR_ON_POOR_DISTRIBUTION
    /\ groupEntries # {}
    /\ roundMatchesRemain[firstEntry(groupEntries)[1]] # {}

\* C21: in strict mode every match distributeMatches chooses has the highest
\* number of required players among the matches still open in the current
\* round at the moment of the pick; when no match with that number is between
\* two eligible players the call raises DistributionError and picks nothing.
C21_StrictPicksMostRequired ==
    [][StrictPickAhead =>
          LET rnd == firstEntry(groupEntries)[1]
          IN IF topRequiredInPool(rnd) # {}
             THEN /\ pc' = "pick"
                  /\ \E id \in topRequiredInPool(rnd) :
                        roundMatchesRemain' = [roundMatchesRemain EXCEPT ![rnd] = @ \ {id}]
             ELSE /\ pc' = "raised" /\ err' = "DistributionError"
                  /\ roundMatchesRemain' = roundMatchesRemain
                  /\ allSlots' = allSlots]_vars

\* a strict call has placed a match and stands before a pick in which the open
\* matches of the round differ in their number of required players, and one
\* with the highest number is between players of the pool
C21_Witness ==
    /\ StrictPickAhead
    /\ groupMatches # {}
    /\ LET rnd == firstEntry(groupEntries)[1]
       IN /\ topRequired(rnd) # roundMatchesRemain[rnd]
          /\ topRequiredInPool(rnd) # {}

(* -------------------------------- C22 --------------------------------- *)
\* the slots getTimeSlots emitted for a date and a group with the given bounds
emitted(date, group, minGames, maxGames) ==
    {i \in DOMAIN _slots :
        /\ _slots[i].date = date /\ _slots[i].group = group
        /\ _slots[i].minGames = minGames /\ _slots[i].maxGames = maxGames}

\* getTimeSlots has returned the slots it built from the season data
SlotsBuilt == pc # "getTimeSlots"

\* what every list of emitted slots has: only dates of the season, only the
\* three groups, date order, and no two slots with the same (date, group)
emittedInOrder ==
    /\ \A i \in DOMAIN _slots :
          /\ _slots[i].date \in seasonData.startdate..seasonData.enddate
          /\ _slots[i].date % 7 <= 4
          /\ _slots[i].group \in {"None", "lunch", "leagueNight"}
    /\ \A i, j \in DOMAIN _slots :
          /\ i < j => _slots[i].date <= _slots[j].date
          /\ i # j => SlotId(_slots[i]) # SlotId(_slots[j])

\* the number of slots of a group on a weekday, with the bounds of the group:
\* lunchSlots on every weekday, leagueSlots on the league night
emittedPerDay(lunchSlots, leagueSlots) ==
    \A date \in seasonData.startdate..seasonData.enddate :
        date % 7 <= 4 =>
            /\ Cardinality(emitted(date, "None", None, None)) = 1
            /\ Cardinality({i \in DOMAIN _slots : SlotId(_slots[i]) = <<date, "None">>}) = 1
            /\ Cardinality(emitted(date, "lunch", GAMES_PER_LUNCH, GAMES_PER_LUNCH)) = lunchSlots
            /\ Cardinality({i \in DOMAIN _slots : SlotId(_slots[i]) = <<date, "lunch">>}) = lunchSlots
            /\ Cardinality(emitted(date, "leagueNight", GAMES_PER_LEAGUE_NIGHT,
                                   GAMES_PER_LEAGUE_NIGHT))
                  = (IF date % 7 = seasonData.leaguenights THEN leagueSlots ELSE 0)
            /\ Cardinality({i \in DOMAIN _slots : SlotId(_slots[i]) = <<date, "leagueNight">>})
                  = (IF date % 7 = seasonData.leaguenights THEN leagueSlots ELSE 0)

\* C22 as stated: for every date of the season getTimeSlots emits no slot on a
\* Saturday or Sunday and, on each weekday, exactly one unconstrained slot,
\* exactly one lunch slot with min = max = the lunch capacity, and a leagueNight
\* slot with min = max = the league-night capacity exactly when the weekday is
\* the league-night weekday; the slots are in date order and no two share
\* (date, group).
C22_OneSlotPerGroupAndDay ==
    SlotsBuilt => emittedInOrder /\ emittedPerDay(1, 1)

\* C22 as amended: the lunch slot is emitted on each weekday exactly when the
\* lunch capacity is positive, and the leagueNight slot on the league-night
\* weekday exactly when the league-night capacity is positive (line 429 drops
\* the slots whose maxGames is 0); everything else as stated.
C22_OneSlotPerOpenGroupAndDay ==
    SlotsBuilt =>
        /\ emittedInOrder
        /\ emittedPerDay(IF GAMES_PER_LUNCH > 0 THEN 1 ELSE 0,
                         IF GAMES_PER_LEAGUE_NIGHT > 0 THEN 1 ELSE 0)

\* a season that spans a weekend and its league night, with the lunch slots
\* configured off and the league night on
C22_Witness ==
    /\ SlotsBuilt
    /\ GAMES_PER_LUNCH = 0 /\ GAMES_PER_LEAGUE_NIGHT > 0
    /\ \E date \in seasonData.startdate..seasonData.enddate : date % 7 > 4
    /\ \E i \in DOMAIN _slots : _slots[i].group = "leagueNight"
    /\ \E i \in DOMAIN _slots : _slots[i].date % 7 # seasonData.leaguenights

(* -------------------------------- C23 --------------------------------- *)
\* the sum of the counts of the entries of roundSlots[r] (line 708)
plannedMatches(r) == SumSeq([i \in DOMAIN roundSlots[r] |-> roundSlots[r][i].numMatches])

\* the while loop of line 614 has ended for round r and no count of its plan
\* has been set to 0 by distributeMatches yet
roundAssigned(r) ==
    /\ pc \in {"assign", "checkAllotment"}
    /\ r < roundNum \/ (r = roundNum /\ matchesLeft <= 0)

\* C23: for every round the counts recorded in roundSlots sum to exactly the
\* number of matches of the round, and the counter of the round's remaining
\* matches is never negative: no +1 is taken for a round with no match left
\* once the floor of the slot is met.
C23_PlanSumsToRoundSize ==
    /\ matchesLeft >= 0
    /\ \A r \in DOMAIN roundSlots :
          roundAssigned(r) => plannedMatches(r) = Len(roundMatches[r])

(* -------------------------------- C24 --------------------------------- *)
\* C24: the Round Assigner consumes the slot sequence exactly: it never pops
\* a slot from the exhausted sequence (line 619), and when the last match of
\* the last round is placed no slot is left in remainingSlots.
C24_SlotsConsumedExactly ==
    /\ ~(pc = "raised" /\ errLine = 619)
    /\ (pc = "checkAllotment" => remainingSlots = <<>>)

(* -------------------------------- C25 --------------------------------- *)
\* C25: no eligible player is given more than maxPicks matches of the group,
\* and once a player is in maxedPlayers no further match containing the
\* player is chosen for a slot of the group.
C25_NoPickBeyondMax ==
    [][pc = "pick" =>
          /\ \A player \in playerPool : groupGames(player) <= maxPicks
          /\ pc' = "pick" =>
                \A player \in maxedPlayers : groupGames(player)' = groupGames(player)]_vars

(* -------------------------------- C26 --------------------------------- *)
\* C26: the leveling loop of lines 557-569 terminates: every pass of the loop
\* leaves strictly fewer games to allot than it found.
C26_LevelingDecreases ==
    [][(pc = "level" /\ gamesLeft > 0) => gamesLeft' < gamesLeft]_vars

(* -------------------------------- C27 --------------------------------- *)
\* the matches of round rnd that _updateMatch has put in a slot
placedFrom(rnd, slot) ==
    Cardinality({k \in DOMAIN allSlots[slot].matches : allSlots[slot].matches[k][1] = rnd})

\* the entries [slot, numMatches] of the plan, as (round, index)
planEntries == {e \in entriesFrom(1, 1) : TRUE}

\* distributeMatches returns to makeSchedule without an exception
DistributeReturns == pc = "pick" /\ pc' \in {"distribute", "fill"}

\* C27: a call distributeMatches(roundSlots, roundMatchesRemain, g, pool) that
\* returns normally changes only the entries of the plan whose slot has group
\* g: the count of such an entry is set to 0 once exactly that many matches of
\* its round are in its slot, and all of them are 0 at the return; the entries
\* of the other groups keep their slot and their count, and the slots of the
\* other groups receive no match.
C27_OnlyGroupEntriesConsumed ==
    [][pc = "pick" =>
          /\ \A e \in planEntries :
                LET entry == roundSlots[e[1]][e[2]]
                    after == roundSlots'[e[1]][e[2]]
                IN IF allSlots[entry.slot].group # gameType
                   THEN /\ after = entry
                        /\ allSlots'[entry.slot] = allSlots[entry.slot]
                   ELSE /\ after.slot = entry.slot
                        /\ \/ /\ after.numMatches = entry.numMatches
                              /\ entry.numMatches = 0 =>
                                    placedFrom(e[1], entry.slot)' = placedFrom(e[1], entry.slot)
                           \/ /\ after.numMatches = 0
                              /\ placedFrom(e[1], entry.slot)' = entry.numMatches
                        /\ DistributeReturns => entry.numMatches = 0
          /\ \A slot \in DOMAIN allSlots :
                allSlots[slot].group # gameType => allSlots'[slot] = allSlots[slot]
          /\ DOMAIN roundSlots' = DOMAIN roundSlots
          /\ \A rnd \in DOMAIN roundSlots : Len(roundSlots'[rnd]) = Len(roundSlots[rnd])]_vars

\* the call for the league night has returned with a match in a slot of the
\* league night while entries of other groups still wait for their matches
C27_Witness ==
    /\ pc = "distribute" /\ gameType = "lunch"
    /\ \E slot \in DOMAIN allSlots :
          allSlots[slot].group = "leagueNight" /\ allSlots[slot].matches # <<>>
    /\ \E e \in planEntries :
          /\ allSlots[roundSlots[e[1]][e[2]].slot].group = "lunch"
          /\ roundSlots[e[1]][e[2]].numMatches > 0
    /\ \E e \in planEntries :
          /\ allSlots[roundSlots[e[1]][e[2]].slot].group = "None"
          /\ roundSlots[e[1]][e[2]].numMatches > 0

(* -------------------------------- C28 --------------------------------- *)
\* no entry of the plan has a slot of the group of the call
planWithoutGroup ==
    \A e \in planEntries : allSlots[roundSlots[e[1]][e[2]].slot].group # gameType

\* C28: when the plan holds no slot of the group, distributeMatches returns
\* normally for every pool of players, the empty one included: it raises no
\* exception, assigns no match and leaves roundSlots and the remaining
\* matches of the rounds as they were.
C28_NoGroupSlotReturns ==
    [][(pc \in {"distribute", "pick"} /\ planWithoutGroup) =>
          /\ pc' # "raised"
          /\ pc = "pick" => DistributeReturns
          /\ roundSlots' = roundSlots
          /\ roundMatchesRemain' = roundMatchesRemain
          /\ allSlots' = allSlots]_vars

(* -------------------------------- C29 --------------------------------- *)
\* C29: the check after the distribution (lines 943-961) counts every match of
\* the group exactly once for each of its two players, also when a slot of the
\* group is shared by the plans of two rounds, and finds the distribution
\* uneven exactly when the players' true counts differ by more than one.
C29_RecountIsTrueCount ==
    (pc = "pick" /\ groupEntries = {}) =>
        /\ \A player \in playerPool : regeneratedPicks(player) = groupGames(player)
        /\ unevenDistribution <=> groupSpread > 1

====
